---- MODULE Spec2Model ----
(***************************************************************************)
(* State-machine model of sapphirus (src/main.py): the Clone pipeline      *)
(* (wipe, settings, roles, categories, channels, emojis), the CloneBot     *)
(* entry points that drive it, and the overwrite translation.              *)
(*                                                                         *)
(* JSON values of the snapshot are tagged pairs: <<"int", n>> is the       *)
(* Python int n, <<"str", n>> is the decimal string of n, <<"none", 0>> is *)
(* None.  A dict lookup compares keys as Python does: "5" and 5 differ.    *)
(* Target objects (discord.Role, channels, emojis) are opaque handles,     *)
(* natural numbers; NoneH is Python's None where a handle is expected.     *)
(***************************************************************************)
EXTENDS Integers, Sequences, FiniteSets, TLC

(* ---------------------------- bounds ----------------------------------- *)
\* entry-point invocations that pass their checks, per behaviour
MaxRuns == 2
\* remote calls or downloads that fail, per behaviour
MaxFail == 1
\* longest overwrite list drawn for the translation-only specification
MaxOw == 2
\* 429 answers one call of APIScraper.get can receive
MaxRateLimited == 2
\* the last tick of the clock RateLimiter reads, a tick being 0.2 s
MaxClock == 12
\* calls of RateLimiter.wait per behaviour
MaxWaits == 3

(* ------------------------- tagged Python values ------------------------- *)
NoneV == <<"none", 0>>
IntV(n) == <<"int", n>>
StrV(n) == <<"str", n>>
\* a string that int() rejects
BadStr == <<"str", -1>>
NoneH == -1

\* Python truthiness of a JSON scalar: None, 0 and "" are falsy
Truthy(v) == v # NoneV /\ v # IntV(0)

\* Clone.safe_int
safe_int(value, default) ==
    IF value = NoneV THEN default
    ELSE IF value[1] = "int" THEN value[2]
    ELSE IF value[1] = "str"
         THEN (IF value = BadStr THEN default ELSE value[2])
    ELSE default

(* ------------------------------ dicts ----------------------------------- *)
EmptyMap == [k \in {} |-> NoneH]
\* dict.get(key): the handle stored under exactly this key, or None
MapGet(m, k) == IF k \in DOMAIN m THEN m[k] ELSE NoneH
\* d[key] = value
MapPut(m, k, v) == [x \in (DOMAIN m) \cup {k} |-> IF x = k THEN v ELSE m[x]]

(* --------------------------- sorted() ----------------------------------- *)
RECURSIVE InsertByPos(_, _)
InsertByPos(x, s) ==
    IF s = <<>> THEN <<x>>
    ELSE IF safe_int(x.position, 0) < safe_int(Head(s).position, 0)
         THEN <<x>> \o s
         ELSE <<Head(s)>> \o InsertByPos(x, Tail(s))

\* sorted(data, key=lambda r: safe_int(r.get("position"), 0)): stable, on a copy
RECURSIVE SortedByPosition(_)
SortedByPosition(s) ==
    IF s = <<>> THEN <<>>
    ELSE InsertByPos(s[Len(s)], SortedByPosition(SubSeq(s, 1, Len(s) - 1)))

Range(s) == {s[i] : i \in 1..Len(s)}

\* the objects of a target collection as the list the library hands out
RECURSIVE ListOf(_)
ListOf(S) ==
    IF S = {} THEN <<>>
    ELSE LET m == CHOOSE x \in S : \A y \in S : x.h <= y.h
         IN <<m>> \o ListOf(S \ {m})

(* --------------------------- the snapshot ------------------------------- *)
\* The JSON documents APIScraper.scrape_server returns.  rep is the
\* representation of every id field: "str" as the remote API sends them,
\* "int" as a snapshot built by hand could hold them.
RoleRec(rep, n, name, pos) ==
    [id |-> <<rep, n>>, name |-> name, position |-> IntV(pos), permissions |-> StrV(n)]
OwRec(rep, type, n, allow, deny) ==
    [type |-> IntV(type), id |-> <<rep, n>>, allow |-> StrV(allow), deny |-> StrV(deny)]
ChanRec(rep, n, type, parent, pos, ows) ==
    [id |-> <<rep, n>>, type |-> IntV(type), parent_id |-> parent,
     position |-> IntV(pos), permission_overwrites |-> ows]
EmojiRec(id) == [id |-> id, animated |-> FALSE]

\* the source guild: its id is also the id of its @everyone role
SnapshotFull(rep) ==
    [id |-> 1,
     guild |-> [id |-> <<rep, 1>>, name |-> "src", icon |-> StrV(5)],
     roles |-> << RoleRec(rep, 3, "vip", 2),
                  RoleRec(rep, 1, "@everyone", 0),
                  RoleRec(rep, 2, "mod", 1) >>,
     channels |-> << ChanRec(rep, 11, 0, <<rep, 10>>, 0,
                             << OwRec(rep, 0, 1, 1, 0) >>),
                     ChanRec(rep, 10, 4, NoneV, 0,
                             << OwRec(rep, 0, 2, 0, 1), OwRec(rep, 1, 7, 1, 0) >>),
                     ChanRec(rep, 12, 2, NoneV, 1, << >>) >>,
     emojis |-> << EmojiRec(<<rep, 20>>) >>]

\* a leaf whose parent is not part of the snapshot, an asset without id
SnapshotOrphan(rep) ==
    [id |-> 1,
     guild |-> [id |-> <<rep, 1>>, name |-> "src", icon |-> NoneV],
     roles |-> << RoleRec(rep, 1, "@everyone", 0), RoleRec(rep, 2, "mod", 1) >>,
     channels |-> << ChanRec(rep, 13, 5, <<rep, 10>>, 0,
                             << OwRec(rep, 0, 2, 1, 1) >>) >>,
     emojis |-> << EmojiRec(NoneV) >>]

\* the metadata read failed, the roles read did not
SnapshotFailed ==
    [id |-> 1,
     guild |-> [error |-> "forbidden", status |-> 403],
     roles |-> << RoleRec("str", 2, "mod", 1) >>,
     channels |-> << >>,
     emojis |-> << >>]

\* three groups besides the default one, a container, two leaves under it,
\* no assets, no record of the default group
ScenarioA ==
    [id |-> 1,
     guild |-> [id |-> StrV(1), name |-> "src", icon |-> NoneV],
     roles |-> << RoleRec("str", 4, "c", 2), RoleRec("str", 2, "a", 0),
                  RoleRec("str", 3, "b", 1) >>,
     channels |-> << ChanRec("str", 11, 0, StrV(10), 0, << >>),
                     ChanRec("str", 10, 4, NoneV, 0, << >>),
                     ChanRec("str", 12, 2, StrV(10), 1, << >>) >>,
     emojis |-> << >>]

\* one channel of each remaining kind: announcement, stage, forum, a kind the
\* pipeline does not know, and two containers, one with its kind as a string
SnapshotKinds ==
    [id |-> 1,
     guild |-> [id |-> StrV(1), name |-> "src", icon |-> NoneV],
     roles |-> << >>,
     channels |-> << ChanRec("str", 15, 5, NoneV, 0, << >>),
                     ChanRec("str", 16, 13, NoneV, 1, << >>),
                     ChanRec("str", 17, 15, NoneV, 2, << >>),
                     ChanRec("str", 18, 99, NoneV, 3, << >>),
                     ChanRec("str", 10, 4, NoneV, 0, << >>),
                     [ChanRec("str", 19, 4, NoneV, 1, << >>) EXCEPT !.type = StrV(4)] >>,
     emojis |-> << >>]

CloneSnapshots == {ScenarioA, SnapshotKinds}

\* ids as strings, as the remote API sends them, and ids as integers
Snapshots == {SnapshotFull("str"), SnapshotOrphan("int"), SnapshotFailed}

\* CloneBot.scraped_data before the first scrape
NoData == [none |-> TRUE]

(* ----------------------------- the target ------------------------------- *)
\* guild_to.default_role
EveryoneH == 0
\* the handle the target returns for an object created in run r from source id n
NewHandle(r, n) == r * 100 + n
\* the position the target gives a role or category created without one
CreatePosition == 1

InitialRoles == {[h |-> EveryoneH, name |-> "@everyone"], [h |-> 4, name |-> "old"]}
InitialChannels == {}
InitialEmojis == {}

(* ------------------- Clone.parse_permission_overwrites ------------------ *)
\* the loop body without its test of the overwrite's kind
TranslateOneAnyKind(ow, rm, sid, default_role, acc) ==
    LET src == safe_int(ow.id, 0)
        found == MapGet(rm, IntV(src))
        target_role == IF found = NoneH /\ src = sid THEN default_role ELSE found
    IN IF target_role # NoneH
       THEN MapPut(acc, target_role, <<safe_int(ow.allow, 0), safe_int(ow.deny, 0)>>)
       ELSE acc

\* the lookup in role_map alone, without the default group of the source
TargetRoleOfMapOnly(ow, rm, sid, default_role) == MapGet(rm, IntV(safe_int(ow.id, 0)))

\* the target role one overwrite resolves to, None when there is none
TargetRoleOf(ow, rm, sid, default_role) ==
    LET src == safe_int(ow.id, 0)
        target_role == MapGet(rm, IntV(src))
    IN IF target_role = NoneH /\ src = sid THEN default_role ELSE target_role

\* one pass of the loop body over an overwrite: overwrites_to afterwards
TranslateOne(ow, rm, sid, default_role, acc) ==
    IF ow.type = IntV(0) /\ TargetRoleOf(ow, rm, sid, default_role) # NoneH
    THEN MapPut(acc, TargetRoleOf(ow, rm, sid, default_role),
                <<safe_int(ow.allow, 0), safe_int(ow.deny, 0)>>)
    ELSE acc

RECURSIVE TranslateFrom(_, _, _, _, _)
TranslateFrom(ows, rm, sid, default_role, acc) ==
    IF ows = <<>> THEN acc
    ELSE TranslateFrom(Tail(ows), rm, sid, default_role,
                       TranslateOne(Head(ows), rm, sid, default_role, acc))

\* overwrites_to: target role handle -> <<allow, deny>>
parse_permission_overwrites(overwrites_data, rm, sid, default_role) ==
    TranslateFrom(overwrites_data, rm, sid, default_role, EmptyMap)

(* ------------------------------- state ---------------------------------- *)
VARIABLES
    client,             \* CloneBot.client is set
    target_id,          \* CloneBot.target_id, 0 for None
    member,             \* what the client sees of the target: present, permissions
    tgt_roles,          \* guild_to.roles
    tgt_channels,       \* guild_to.channels
    tgt_emojis,         \* guild_to.emojis
    scraped_data,       \* CloneBot.scraped_data
    source_id,          \* CloneBot.source_id, NoneH for None
    role_map,           \* CloneBot.role_map
    cat_map,            \* CloneBot.cat_map
    chan_map,           \* CloneBot.chan_map
    current_operation,  \* Clone.current_operation
    completed,          \* Clone.completed
    total,              \* Clone.total
    errors,             \* Clone.errors
    pc,                 \* where the control flow stands: "menu", a phase, "crashed"
    entry,              \* the entry point last invoked
    work,               \* the list the current phase loops over
    idx,                \* the index of the next item of work
    runs,               \* entry-point invocations that passed their checks
    fails,              \* failed remote calls so far
    calls,              \* the mutating calls of the current invocation, in order
    pre_ok,             \* whether the target was usable when the invocation began
    lines,              \* the console lines since the previous phase's loop ended
    parse_in,           \* translation-only specification: the call's arguments
    parse_out,          \* translation-only specification: the outputs so far
    endpoint,           \* APIScraper.get: its argument
    get_depth,          \* APIScraper.get: activations of get in progress
    get_log,            \* APIScraper.get: the requests of the current call, answers included
    get_slept,          \* APIScraper.get: the asyncio.sleep durations of the current call
    get_result,         \* APIScraper.get: the value the call returns
    reads,              \* scrape_server: the values its calls of get have returned
    snapshot,           \* scrape_server: the document it returns
    clock,              \* time.time(), in ticks
    last,               \* RateLimiter.last
    wait_log            \* RateLimiter.wait: return time and sleep of each call so far

vars == <<client, target_id, member, tgt_roles, tgt_channels, tgt_emojis,
          scraped_data, source_id, role_map, cat_map, chan_map,
          current_operation, completed, total, errors,
          pc, entry, work, idx, runs, fails, calls, pre_ok, lines, parse_in, parse_out,
          endpoint, get_depth, get_log, get_slept, get_result, reads, snapshot,
          clock, last, wait_log>>

envVars == <<client, target_id, member>>
tgtVars == <<tgt_roles, tgt_channels, tgt_emojis>>
mapVars == <<role_map, cat_map, chan_map>>
statVars == <<current_operation, completed, total, errors>>
parseVars == <<parse_in, parse_out>>
getVars == <<endpoint, get_depth, get_log, get_slept, get_result>>
scrapeVars == <<getVars, reads, snapshot>>
rateVars == <<clock, last, wait_log>>

Outcome == {"ok", "forbidden", "http", "other"}
Cost(o) == IF o = "ok" THEN 0 ELSE 1

\* one mutating call on the target, as the pipeline issued it.  pos is the
\* position the call carries (a create's is the one the object is created at),
\* waited says that the call site awaited rate.wait() after the previous call.
\* how names the library method and the kind-specific keywords of a leaf creation.
NoHow == [fn |-> "none", args |-> {}]

Call(op, src, tgt, cat, ow, ok, pos, waited) ==
    [op |-> op, src |-> src, tgt |-> tgt, cat |-> cat, ow |-> ow, ok |-> ok,
     pos |-> pos, waited |-> waited, how |-> NoHow]

\* channels_create: the if / elif chain on chan_type; every branch also passes
\* name, category, overwrites and position
CreateCallFor(chan_type) ==
    CASE chan_type = 0 ->
           [fn |-> "create_text_channel", args |-> {"topic", "slowmode_delay", "nsfw"}]
      [] chan_type = 2 ->
           [fn |-> "create_voice_channel", args |-> {"bitrate", "user_limit"}]
      [] chan_type = 5 -> [fn |-> "create_text_channel", args |-> {"topic"}]
      [] chan_type = 13 -> [fn |-> "create_stage_channel", args |-> {}]
      [] chan_type = 15 -> [fn |-> "create_forum", args |-> {"topic"}]
      [] OTHER -> [fn |-> "create_text_channel", args |-> {}]

(* ------------------------------ CloneBot -------------------------------- *)
\* check_target without its test of the two permissions
check_target_no_perms(cl, tid, mem) ==
    IF ~cl THEN FALSE
    ELSE IF tid = 0 THEN FALSE
    ELSE IF ~mem.present THEN FALSE
    ELSE TRUE

\* CloneBot.check_target: TRUE when it returns the target, FALSE for None
check_target(cl, tid, mem) ==
    IF ~cl THEN FALSE
    ELSE IF tid = 0 THEN FALSE
    ELSE IF ~mem.present THEN FALSE
    ELSE IF ~mem.manage_channels \/ ~mem.manage_roles THEN FALSE
    ELSE TRUE

\* roles_delete's list without the filter on the name
RolesToDeleteAll(roles) == roles

\* roles_delete's list: every role of the target but @everyone
RolesToDelete(roles) == {r \in roles : r.name # "@everyone"}

\* the default group record taken to be the one at the bottom
IsEveryoneAtBottom(role_data) == role_data.position = IntV(0)

\* roles_create's test for the default group record
IsEveryone(role_data) == role_data.name = "@everyone"

\* the category lookup with the key converted as parse_permission_overwrites does
CategoryForInt(cm, parent_id) ==
    IF Truthy(parent_id) THEN MapGet(cm, IntV(safe_int(parent_id, 0))) ELSE NoneH

\* channels_create: category = cat_map.get(parent_id) if parent_id else None
CategoryFor(cm, parent_id) == IF Truthy(parent_id) THEN MapGet(cm, parent_id) ELSE NoneH

\* which failures of a remote call the except clauses of a phase catch
Caught(phase, o) ==
    IF phase \in {"roles_create", "channels_create", "emojis_create"}
    THEN o \in {"forbidden", "http", "other"}
    ELSE IF phase = "guild_edit" THEN o = "forbidden"
    ELSE o \in {"forbidden", "http"}

\* the phase order with the leaves created before the containers
NextPhaseLeavesFirst(e, p) ==
    CASE p = "guild_edit" -> "emojis_delete"
      [] p = "emojis_delete" -> IF e = "full" THEN "channels_delete" ELSE "emojis_create"
      [] p = "channels_delete" ->
            IF e = "full" THEN "roles_delete"
            ELSE IF e = "structure" THEN "channels_create" ELSE "menu"
      [] p = "roles_delete" -> IF e \in {"full", "roles"} THEN "roles_create" ELSE "menu"
      [] p = "roles_create" -> "reorder_roles"
      [] p = "reorder_roles" -> IF e = "full" THEN "channels_create" ELSE "menu"
      [] p = "channels_create" -> "categories_create"
      [] p = "categories_create" -> IF e = "full" THEN "emojis_create" ELSE "menu"
      [] p = "emojis_create" -> "menu"

\* the phase an entry point runs after phase p; "menu" when it returns
NextPhase(e, p) ==
    CASE p = "guild_edit" -> "emojis_delete"
      [] p = "emojis_delete" -> IF e = "full" THEN "channels_delete" ELSE "emojis_create"
      [] p = "channels_delete" ->
            IF e = "full" THEN "roles_delete"
            ELSE IF e = "structure" THEN "categories_create" ELSE "menu"
      [] p = "roles_delete" -> IF e \in {"full", "roles"} THEN "roles_create" ELSE "menu"
      [] p = "roles_create" -> "reorder_roles"
      [] p = "reorder_roles" -> IF e = "full" THEN "categories_create" ELSE "menu"
      [] p = "categories_create" -> "channels_create"
      [] p = "channels_create" -> IF e = "full" THEN "emojis_create" ELSE "menu"
      [] p = "emojis_create" -> "menu"

\* the list a phase method builds before its loop
WorkOf(p) ==
    CASE p = "guild_edit" -> <<scraped_data.guild>>
      [] p = "emojis_delete" -> ListOf(tgt_emojis)
      [] p = "channels_delete" -> ListOf(tgt_channels)
      [] p = "roles_delete" -> ListOf(RolesToDelete(tgt_roles))
      [] p = "roles_create" -> SortedByPosition(scraped_data.roles)
      [] p = "categories_create" ->
            SortedByPosition(SelectSeq(scraped_data.channels, LAMBDA c : c.type = IntV(4)))
      [] p = "channels_create" ->
            SortedByPosition(SelectSeq(scraped_data.channels, LAMBDA c : c.type # IntV(4)))
      [] p = "emojis_create" -> scraped_data.emojis

OperationName(p) ==
    CASE p = "guild_edit" -> "Updating Guild"
      [] p = "emojis_delete" -> "Deleting Emojis"
      [] p = "channels_delete" -> "Deleting Channels"
      [] p = "roles_delete" -> "Deleting Roles"
      [] p = "roles_create" -> "Creating Roles"
      [] p = "reorder_roles" -> "Reordering Roles"
      [] p = "categories_create" -> "Creating Categories"
      [] p = "channels_create" -> "Creating Channels"
      [] p = "emojis_create" -> "Creating Emojis"

\* one line written to the console during a phase: the method that wrote it,
\* whether it held print_lock while writing, and the percentage a status line
\* shows.  Banners and the "Deleting n roles..." headers are left out.
Line(via, locked, percent) ==
    [phase |-> pc, via |-> via, locked |-> locked, percent |-> percent]
log_add == Line("log_add", TRUE, NoneH)
log_delete == Line("log_delete", TRUE, NoneH)
log_error == Line("log_error", TRUE, NoneH)
\* guild_edit: console.print("icon failed: ...")
icon_failed == Line("console.print", FALSE, NoneH)
\* Clone.print_status
print_status ==
    Line("print_status", FALSE, IF total > 0 THEN (completed * 100) \div total ELSE NoneH)

\* a phase method reaches its print_status() unless it returned on total == 0;
\* guild_edit and reorder_roles have none
PrintsStatus(p) ==
    \/ p \in {"roles_delete", "roles_create", "channels_delete"}
    \/ p \in {"categories_create", "channels_create", "emojis_delete", "emojis_create"}
         /\ total > 0

\* roles_create ordering the list it was handed with list.sort()
SnapshotAfterSortInPlace(p) ==
    IF p = "roles_create"
    THEN [scraped_data EXCEPT !.roles = SortedByPosition(@)]
    ELSE scraped_data

\* CloneBot.scraped_data once the head of phase method p has built its list:
\* sorted() and the list comprehensions build new lists, the document and its
\* records stay as they were
SnapshotAfter(p) == scraped_data

\* the head of phase method p alone, with no reset_stats() before it
BeginNoReset(p) ==
    /\ pc' = p
    /\ scraped_data' = SnapshotAfter(p)
    /\ idx' = 1
    /\ current_operation' = OperationName(p)
    /\ IF p = "reorder_roles"
       THEN UNCHANGED <<work, completed, total, errors>>
       ELSE /\ work' = WorkOf(p)
            /\ UNCHANGED errors
            /\ IF p = "guild_edit"
               THEN UNCHANGED <<completed, total>>
               ELSE completed' = 0 /\ total' = Len(WorkOf(p))

\* reset_stats() followed by the head of phase method p, up to its loop;
\* reorder_roles is called from roles_create, with no reset
Begin(p) ==
    /\ pc' = p
    /\ scraped_data' = SnapshotAfter(p)
    /\ idx' = 1
    /\ current_operation' = OperationName(p)
    /\ IF p = "reorder_roles"
       THEN UNCHANGED <<work, completed, total, errors>>
       ELSE /\ work' = WorkOf(p)
            /\ completed' = 0
            /\ errors' = 0
            /\ total' = IF p = "guild_edit" THEN 0 ELSE Len(WorkOf(p))

\* a finished entry point returns to the menu loop of CloneBot.run
Return ==
    /\ pc' = "menu"
    /\ work' = <<>>
    /\ idx' = 1
    /\ calls' = <<>>
    /\ lines' = <<>>
    /\ entry' = "none"
    /\ pre_ok' = FALSE
    /\ UNCHANGED <<statVars, scraped_data>>

\* an exception leaves the entry point, CloneBot.run and asyncio.run
Crash ==
    /\ pc' = "crashed"
    /\ UNCHANGED <<work, idx, statVars>>

\* a loop body that counts an item as completed only when it logged no error
ItemDoneUnlessError(nerr) ==
    /\ completed' = completed + (1 - nerr)
    /\ errors' = errors + nerr
    /\ idx' = idx + 1
    /\ UNCHANGED <<pc, work, current_operation, total>>

\* the loop body ran to its end: completed += 1, errors += 1 per log_error
ItemDone(nerr) ==
    /\ completed' = completed + 1
    /\ errors' = errors + nerr
    /\ idx' = idx + 1
    /\ UNCHANGED <<pc, work, current_operation, total>>

\* the four conditions check_target is there to establish
Usable ==
    client /\ target_id # 0 /\ member.present
      /\ member.manage_channels /\ member.manage_roles

HasData == "guild" \in DOMAIN scraped_data

MemberViews ==
    {[present |-> TRUE, manage_channels |-> TRUE, manage_roles |-> TRUE],
     [present |-> FALSE, manage_channels |-> FALSE, manage_roles |-> FALSE],
     [present |-> TRUE, manage_channels |-> FALSE, manage_roles |-> TRUE],
     [present |-> TRUE, manage_channels |-> TRUE, manage_roles |-> FALSE]}

Init ==
    /\ client = TRUE
    /\ target_id = 0
    /\ member \in MemberViews
    /\ tgt_roles = InitialRoles
    /\ tgt_channels = InitialChannels
    /\ tgt_emojis = InitialEmojis
    /\ scraped_data = NoData
    /\ source_id = NoneH
    /\ role_map = EmptyMap
    /\ cat_map = EmptyMap
    /\ chan_map = EmptyMap
    /\ current_operation = "idle"
    /\ completed = 0
    /\ total = 0
    /\ errors = 0
    /\ pc = "menu"
    /\ entry = "none"
    /\ work = <<>>
    /\ idx = 1
    /\ runs = 0
    /\ fails = 0
    /\ calls = <<>>
    /\ pre_ok = FALSE
    /\ lines = <<>>
    /\ parse_in = <<>>
    /\ parse_out = <<>>
    /\ endpoint = "none"
    /\ get_depth = 0
    /\ get_log = <<>>
    /\ get_slept = <<>>
    /\ get_result = NoneV
    /\ reads = <<>>
    /\ snapshot = NoData
    /\ clock = 0
    /\ last = 0
    /\ wait_log = <<>>

(* ------------------------- menu: setting up ----------------------------- *)
\* CloneBot.connect_bot: the old client is dropped; an empty token leaves none
ConnectBot ==
    /\ pc = "menu"
    /\ runs < MaxRuns
    /\ \E token \in BOOLEAN, m \in MemberViews :
         /\ client' = token
         /\ member' = IF token THEN m ELSE member
    /\ UNCHANGED <<target_id, tgtVars, scraped_data, source_id, mapVars, statVars,
                   pc, entry, work, idx, runs, fails, calls, pre_ok, lines,
                   parseVars, scrapeVars, rateVars>>

\* CloneBot.set_target: only a guild of client.guilds can be selected
SetTarget ==
    /\ pc = "menu"
    /\ runs < MaxRuns
    /\ client
    /\ \E valid \in BOOLEAN :
         target_id' = IF valid /\ member.present THEN 1 ELSE target_id
    /\ UNCHANGED <<client, member, tgtVars, scraped_data, source_id, mapVars, statVars,
                   pc, entry, work, idx, runs, fails, calls, pre_ok, lines,
                   parseVars, scrapeVars, rateVars>>

\* CloneBot.scrape_source: the snapshot is kept whatever the guild record holds
ScrapeSource ==
    /\ pc = "menu"
    /\ runs < MaxRuns
    /\ \E s \in Snapshots :
         /\ scraped_data' = s
         /\ source_id' = s.id
    /\ UNCHANGED <<envVars, tgtVars, mapVars, statVars,
                   pc, entry, work, idx, runs, fails, calls, pre_ok, lines,
                   parseVars, scrapeVars, rateVars>>

(* --------------------------- entry points ------------------------------- *)
Invoke ==
    /\ pc = "menu"
    /\ runs < MaxRuns
    /\ UNCHANGED <<envVars, tgtVars, source_id, fails, parseVars, scrapeVars, rateVars>>

\* the checks of entry point e are passed: its first phase method is called
Proceed(e, first) ==
    /\ entry' = e
    /\ pre_ok' = Usable
    /\ runs' = runs + 1
    /\ calls' = <<>>
    /\ lines' = <<>>
    /\ Begin(first)

\* one of the early return statements of an entry point is taken
GiveUp ==
    UNCHANGED <<pc, entry, pre_ok, calls, lines, work, idx, statVars, runs, mapVars,
                scraped_data>>

\* CloneBot.do_full_clone
DoFullClone ==
    /\ Invoke
    /\ \E confirm \in BOOLEAN :
         IF ~HasData \/ ~check_target(client, target_id, member)
              \/ "name" \notin DOMAIN scraped_data.guild \/ ~confirm
         THEN GiveUp
         ELSE /\ role_map' = EmptyMap
              /\ cat_map' = EmptyMap
              /\ chan_map' = EmptyMap
              /\ Proceed("full", "guild_edit")

\* CloneBot.do_clone_roles
DoCloneRoles ==
    /\ Invoke
    /\ \E wipe \in BOOLEAN :
         IF ~HasData \/ ~check_target(client, target_id, member)
         THEN GiveUp
         ELSE /\ UNCHANGED mapVars
              /\ Proceed("roles", IF wipe THEN "roles_delete" ELSE "roles_create")

\* CloneBot.do_clone_structure
DoCloneStructure ==
    /\ Invoke
    /\ \E wipe \in BOOLEAN :
         IF ~HasData \/ ~check_target(client, target_id, member)
         THEN GiveUp
         ELSE /\ UNCHANGED mapVars
              /\ Proceed("structure", IF wipe THEN "channels_delete" ELSE "categories_create")

\* CloneBot.do_clone_emojis
DoCloneEmojis ==
    /\ Invoke
    /\ \E wipe \in BOOLEAN :
         IF ~HasData \/ ~check_target(client, target_id, member)
         THEN GiveUp
         ELSE /\ UNCHANGED mapVars
              /\ Proceed("emojis", IF wipe THEN "emojis_delete" ELSE "emojis_create")

\* CloneBot.do_delete_roles
DoDeleteRoles ==
    /\ Invoke
    /\ \E confirm \in BOOLEAN :
         IF ~check_target(client, target_id, member) \/ ~confirm
         THEN GiveUp
         ELSE /\ UNCHANGED mapVars
              /\ Proceed("del_roles", "roles_delete")

\* CloneBot.do_delete_channels
DoDeleteChannels ==
    /\ Invoke
    /\ \E confirm \in BOOLEAN :
         IF ~check_target(client, target_id, member) \/ ~confirm
         THEN GiveUp
         ELSE /\ UNCHANGED mapVars
              /\ Proceed("del_channels", "channels_delete")

(* ------------------------------- Clone ---------------------------------- *)
NoOw == EmptyMap
Spend(n) == fails + n <= MaxFail /\ fails' = fails + n

\* Clone.guild_edit: the name edit, then the icon fetch and the icon edit
GuildEdit ==
    /\ pc = "guild_edit" /\ idx <= Len(work)
    /\ \E o \in Outcome, fetch \in {"ok", "status", "exception"}, o2 \in Outcome :
         LET has_icon == o = "ok" /\ Truthy(work[idx].icon)
             icon_edit == has_icon /\ fetch = "ok"
             name_call == Call("guild_edit", NoneV, NoneH, NoneH, NoOw, o = "ok", NoneH, FALSE)
             icon_call == Call("guild_icon", NoneV, NoneH, NoneH, NoOw, o2 = "ok", NoneH, FALSE)
         IN /\ (~has_icon => fetch = "ok")
            /\ (~icon_edit => o2 = "ok")
            /\ Spend(Cost(o) + Cost(o2) + (IF fetch = "ok" THEN 0 ELSE 1))
            /\ calls' = calls \o <<name_call>> \o (IF icon_edit THEN <<icon_call>> ELSE <<>>)
            /\ lines' = lines
                 \o (IF o = "ok" THEN <<log_add>>
                     ELSE IF Caught("guild_edit", o) THEN <<log_error>> ELSE <<>>)
                 \o (IF icon_edit /\ o2 = "ok" THEN <<log_add>>
                     ELSE IF has_icon /\ (fetch = "exception" \/ (icon_edit /\ o2 # "ok"))
                          THEN <<icon_failed>>
                     ELSE <<>>)
            /\ IF o = "ok" \/ Caught("guild_edit", o)
               THEN /\ idx' = idx + 1
                    /\ errors' = errors + Cost(o)
                    /\ UNCHANGED <<pc, work, current_operation, completed, total>>
               ELSE Crash
    /\ UNCHANGED <<envVars, tgtVars, scraped_data, source_id, mapVars,
                   entry, runs, pre_ok, parseVars, scrapeVars, rateVars>>

\* one pass of the loop of Clone.emojis_delete
EmojisDeleteItem ==
    /\ pc = "emojis_delete" /\ idx <= Len(work)
    /\ \E o \in Outcome :
         /\ Spend(Cost(o))
         /\ calls' = Append(calls, Call("emoji_delete", NoneV, work[idx].h, NoneH, NoOw,
                                     o = "ok", NoneH, TRUE))
         /\ tgt_emojis' = IF o = "ok" THEN tgt_emojis \ {work[idx]} ELSE tgt_emojis
         /\ lines' = lines \o (IF o = "ok" THEN <<log_delete>>
                                 ELSE IF Caught("emojis_delete", o) THEN <<log_error>> ELSE <<>>)
         /\ IF o = "ok" \/ Caught("emojis_delete", o) THEN ItemDone(Cost(o)) ELSE Crash
    /\ UNCHANGED <<envVars, tgt_roles, tgt_channels, scraped_data, source_id, mapVars,
                   entry, runs, pre_ok, parseVars, scrapeVars, rateVars>>

\* one pass of the loop of Clone.channels_delete
ChannelsDeleteItem ==
    /\ pc = "channels_delete" /\ idx <= Len(work)
    /\ \E o \in Outcome :
         /\ Spend(Cost(o))
         /\ calls' = Append(calls, Call("channel_delete", NoneV, work[idx].h, NoneH, NoOw,
                                     o = "ok", NoneH, TRUE))
         /\ tgt_channels' = IF o = "ok" THEN tgt_channels \ {work[idx]} ELSE tgt_channels
         /\ lines' = lines \o (IF o = "ok" THEN <<log_delete>>
                                 ELSE IF Caught("channels_delete", o) THEN <<log_error>> ELSE <<>>)
         /\ IF o = "ok" \/ Caught("channels_delete", o) THEN ItemDone(Cost(o)) ELSE Crash
    /\ UNCHANGED <<envVars, tgt_roles, tgt_emojis, scraped_data, source_id, mapVars,
                   entry, runs, pre_ok, parseVars, scrapeVars, rateVars>>

\* one pass of the loop of Clone.roles_delete
RolesDeleteItem ==
    /\ pc = "roles_delete" /\ idx <= Len(work)
    /\ \E o \in Outcome :
         /\ Spend(Cost(o))
         /\ calls' = Append(calls, Call("role_delete", NoneV, work[idx].h, NoneH, NoOw,
                                     o = "ok", NoneH, TRUE))
         /\ tgt_roles' = IF o = "ok" THEN tgt_roles \ {work[idx]} ELSE tgt_roles
         /\ lines' = lines \o (IF o = "ok" THEN <<log_delete>>
                                 ELSE IF Caught("roles_delete", o) THEN <<log_error>> ELSE <<>>)
         /\ IF o = "ok" \/ Caught("roles_delete", o) THEN ItemDone(Cost(o)) ELSE Crash
    /\ UNCHANGED <<envVars, tgt_channels, tgt_emojis, scraped_data, source_id, mapVars,
                   entry, runs, pre_ok, parseVars, scrapeVars, rateVars>>

\* one pass of the first loop of Clone.roles_create
RolesCreateItem ==
    /\ pc = "roles_create" /\ idx <= Len(work)
    /\ \E o \in Outcome :
         LET role_data == work[idx]
             new_role == NewHandle(runs, safe_int(role_data.id, 0))
         IN /\ Spend(Cost(o))
            /\ IF IsEveryone(role_data)
               THEN /\ calls' = Append(calls, Call("role_edit", role_data.id, EveryoneH,
                                                   NoneH, NoOw, o = "ok", NoneH, TRUE))
                    /\ role_map' = IF o = "ok"
                                   THEN MapPut(role_map, role_data.id, EveryoneH)
                                   ELSE role_map
                    /\ UNCHANGED tgt_roles
               ELSE /\ calls' = Append(calls, Call("role_create", role_data.id,
                                                   IF o = "ok" THEN new_role ELSE NoneH,
                                                   NoneH, NoOw, o = "ok",
                                                   CreatePosition, TRUE))
                    /\ role_map' = IF o = "ok"
                                   THEN MapPut(role_map, role_data.id, new_role)
                                   ELSE role_map
                    /\ tgt_roles' = IF o = "ok"
                                    THEN tgt_roles \cup {[h |-> new_role, name |-> role_data.name]}
                                    ELSE tgt_roles
            /\ lines' = Append(lines, IF o = "ok" THEN log_add ELSE log_error)
            /\ ItemDone(Cost(o))
    /\ UNCHANGED <<envVars, tgt_channels, tgt_emojis, scraped_data, source_id,
                   cat_map, chan_map, entry, runs, pre_ok, parseVars, scrapeVars, rateVars>>

\* one pass of the loop of Clone.reorder_roles: every failure is swallowed.
\* Of the roles role_map can hold only guild_to.default_role is named @everyone.
ReorderRolesItem ==
    /\ pc = "reorder_roles" /\ idx <= Len(work)
    /\ LET role_data == work[idx]
           target_role == MapGet(role_map, role_data.id)
       IN IF target_role = NoneH \/ target_role = EveryoneH
          THEN UNCHANGED <<calls, fails>>
          ELSE \E o \in Outcome :
                 /\ Spend(Cost(o))
                 /\ calls' = Append(calls, Call("role_position", role_data.id, target_role,
                                                NoneH, NoOw, o = "ok",
                                                safe_int(role_data.position, 0), FALSE))
    /\ idx' = idx + 1
    /\ UNCHANGED <<envVars, tgtVars, scraped_data, source_id, mapVars, statVars,
                   pc, entry, work, runs, pre_ok, lines, parseVars, scrapeVars, rateVars>>

\* one pass of the loop of Clone.categories_create: create, then edit(position)
CategoriesCreateItem ==
    /\ pc = "categories_create" /\ idx <= Len(work)
    /\ \E o \in Outcome, o2 \in Outcome :
         LET cat_data == work[idx]
             overwrites_to == parse_permission_overwrites(cat_data.permission_overwrites,
                                                          role_map, source_id, EveryoneH)
             new_cat == NewHandle(runs, safe_int(cat_data.id, 0))
             raised == IF o # "ok" THEN o ELSE o2
             create_call == Call("category_create", cat_data.id,
                                 IF o = "ok" THEN new_cat ELSE NoneH,
                                 NoneH, overwrites_to, o = "ok", CreatePosition, TRUE)
             edit_call == Call("category_position", cat_data.id, new_cat,
                               NoneH, NoOw, o2 = "ok",
                               safe_int(cat_data.position, 0), FALSE)
         IN /\ (o # "ok" => o2 = "ok")
            /\ Spend(Cost(o) + Cost(o2))
            /\ calls' = calls \o <<create_call>> \o (IF o = "ok" THEN <<edit_call>> ELSE <<>>)
            /\ tgt_channels' = IF o = "ok"
                               THEN tgt_channels \cup {[h |-> new_cat, category |-> NoneH]}
                               ELSE tgt_channels
            /\ cat_map' = IF raised = "ok" THEN MapPut(cat_map, cat_data.id, new_cat)
                          ELSE cat_map
            /\ lines' = lines \o (IF raised = "ok" THEN <<log_add>>
                                    ELSE IF Caught("categories_create", raised)
                                         THEN <<log_error>> ELSE <<>>)
            /\ IF raised = "ok" \/ Caught("categories_create", raised)
               THEN ItemDone(Cost(raised))
               ELSE Crash
    /\ UNCHANGED <<envVars, tgt_roles, tgt_emojis, scraped_data, source_id,
                   role_map, chan_map, entry, runs, pre_ok, parseVars, scrapeVars, rateVars>>

\* one pass of the loop of Clone.channels_create
ChannelsCreateItem ==
    /\ pc = "channels_create" /\ idx <= Len(work)
    /\ \E o \in Outcome, o2 \in Outcome :
         LET ch_data == work[idx]
             chan_type == safe_int(ch_data.type, 0)
             category == CategoryFor(cat_map, ch_data.parent_id)
             overwrites_to == parse_permission_overwrites(ch_data.permission_overwrites,
                                                          role_map, source_id, EveryoneH)
             new_chan == NewHandle(runs, safe_int(ch_data.id, 0))
             news == o = "ok" /\ chan_type = 5
             create_call == [Call("channel_create", ch_data.id,
                                  IF o = "ok" THEN new_chan ELSE NoneH,
                                  category, overwrites_to, o = "ok",
                                  safe_int(ch_data.position, 0), TRUE)
                               EXCEPT !.how = CreateCallFor(chan_type)]
             edit_call == Call("channel_type_edit", ch_data.id, new_chan,
                               NoneH, NoOw, o2 = "ok", NoneH, FALSE)
         IN /\ (~news => o2 = "ok")
            /\ Spend(Cost(o) + Cost(o2))
            /\ calls' = calls \o <<create_call>> \o (IF news THEN <<edit_call>> ELSE <<>>)
            /\ tgt_channels' = IF o = "ok"
                               THEN tgt_channels \cup {[h |-> new_chan, category |-> category]}
                               ELSE tgt_channels
            /\ chan_map' = IF o = "ok" THEN MapPut(chan_map, ch_data.id, new_chan)
                           ELSE chan_map
            /\ lines' = Append(lines, IF o = "ok" THEN log_add ELSE log_error)
            /\ ItemDone(Cost(o))
    /\ UNCHANGED <<envVars, tgt_roles, tgt_emojis, scraped_data, source_id,
                   role_map, cat_map, entry, runs, pre_ok, parseVars, scrapeVars, rateVars>>

\* emojis_create with the test of resp.status left out
EmojiCreateReachedAnyStatus(emoji_id, fetch) == Truthy(emoji_id) /\ fetch # "exception"

\* emojis_create reaches create_custom_emoji: the id is there and the download
\* answered 200
EmojiCreateReached(emoji_id, fetch) == Truthy(emoji_id) /\ fetch = "ok"

\* one pass of the loop of Clone.emojis_create
EmojisCreateItem ==
    /\ pc = "emojis_create" /\ idx <= Len(work)
    /\ \E fetch \in {"ok", "status", "exception"}, o \in Outcome :
         LET emoji_data == work[idx]
             emoji_id == emoji_data.id
             create == EmojiCreateReached(emoji_id, fetch)
             new_emoji == NewHandle(runs, safe_int(emoji_id, 0))
         IN /\ (~Truthy(emoji_id) => fetch = "ok")
            /\ (~create => o = "ok")
            /\ Spend(Cost(o) + (IF fetch = "ok" THEN 0 ELSE 1))
            /\ calls' = IF create
                        THEN Append(calls, Call("emoji_create", emoji_id,
                                                IF o = "ok" THEN new_emoji ELSE NoneH,
                                                NoneH, NoOw, o = "ok", NoneH, TRUE))
                        ELSE calls
            /\ tgt_emojis' = IF create /\ o = "ok"
                             THEN tgt_emojis \cup {[h |-> new_emoji]}
                             ELSE tgt_emojis
            /\ lines' = Append(lines, IF create /\ o = "ok" THEN log_add ELSE log_error)
            /\ ItemDone(IF create /\ o = "ok" THEN 0 ELSE 1)
    /\ UNCHANGED <<envVars, tgt_roles, tgt_channels, scraped_data, source_id,
                   mapVars, entry, runs, pre_ok, parseVars, scrapeVars, rateVars>>

Phases ==
    {"guild_edit", "emojis_delete", "channels_delete", "roles_delete", "roles_create",
     "reorder_roles", "categories_create", "channels_create", "emojis_create"}

\* a phase method returns: the entry point calls the next one, or returns itself
PhaseDone ==
    /\ pc \in Phases /\ idx > Len(work)
    /\ IF NextPhase(entry, pc) = "menu"
       THEN Return
       ELSE /\ Begin(NextPhase(entry, pc))
            /\ lines' = IF PrintsStatus(pc) THEN <<print_status>> ELSE <<>>
            /\ UNCHANGED <<calls, entry, pre_ok>>
    /\ UNCHANGED <<envVars, tgtVars, source_id, mapVars,
                   runs, fails, parseVars, scrapeVars, rateVars>>

Next ==
    \/ ConnectBot
    \/ SetTarget
    \/ ScrapeSource
    \/ DoFullClone
    \/ DoCloneRoles
    \/ DoCloneStructure
    \/ DoCloneEmojis
    \/ DoDeleteRoles
    \/ DoDeleteChannels
    \/ GuildEdit
    \/ EmojisDeleteItem
    \/ ChannelsDeleteItem
    \/ RolesDeleteItem
    \/ RolesCreateItem
    \/ ReorderRolesItem
    \/ CategoriesCreateItem
    \/ ChannelsCreateItem
    \/ EmojisCreateItem
    \/ PhaseDone

Spec == Init /\ [][Next]_vars

(* ------------- the translation alone, called twice in a row ------------- *)
OwChoices ==
    {[type |-> IntV(t), id |-> i, allow |-> StrV(b[1]), deny |-> StrV(b[2])] :
        t \in {0, 1},
        i \in {StrV(1), StrV(2), IntV(2), StrV(3)},
        b \in {<<1, 0>>, <<0, 1>>}}

OwLists == UNION {[1..n -> OwChoices] : n \in 0..MaxOw}

\* role_map as roles_create leaves it, for either representation of the ids
ParseMaps ==
    {EmptyMap,
     MapPut(MapPut(EmptyMap, StrV(1), EveryoneH), StrV(2), NewHandle(1, 2)),
     MapPut(MapPut(EmptyMap, IntV(1), EveryoneH), IntV(2), NewHandle(1, 2)),
     MapPut(EmptyMap, IntV(2), NewHandle(1, 2))}

InitParse ==
    /\ client = TRUE
    /\ target_id = 1
    /\ member = [present |-> TRUE, manage_channels |-> TRUE, manage_roles |-> TRUE]
    /\ tgt_roles = InitialRoles
    /\ tgt_channels = InitialChannels
    /\ tgt_emojis = InitialEmojis
    /\ scraped_data = NoData
    /\ source_id = 1
    /\ role_map \in ParseMaps
    /\ cat_map = EmptyMap
    /\ chan_map = EmptyMap
    /\ current_operation = "idle"
    /\ completed = 0
    /\ total = 0
    /\ errors = 0
    /\ pc = "parse"
    /\ entry = "none"
    /\ work = <<>>
    /\ idx = 1
    /\ runs = 0
    /\ fails = 0
    /\ calls = <<>>
    /\ pre_ok = FALSE
    /\ lines = <<>>
    /\ parse_in \in OwLists
    /\ parse_out = <<>>
    /\ endpoint = "none"
    /\ get_depth = 0
    /\ get_log = <<>>
    /\ get_slept = <<>>
    /\ get_result = NoneV
    /\ reads = <<>>
    /\ snapshot = NoData
    /\ clock = 0
    /\ last = 0
    /\ wait_log = <<>>

\* a variant of the call that empties the list it walks
ParseCallConsuming ==
    /\ pc = "parse"
    /\ Len(parse_out) < 2
    /\ parse_out' = Append(parse_out,
                           parse_permission_overwrites(parse_in, role_map, source_id, EveryoneH))
    /\ parse_in' = <<>>
    /\ UNCHANGED <<envVars, tgtVars, scraped_data, source_id, mapVars, statVars,
                   pc, entry, work, idx, runs, fails, calls, pre_ok, lines,
                   scrapeVars, rateVars>>

\* one call of Clone.parse_permission_overwrites on parse_in: what it reads,
\* what it returns, what it leaves as it was
ParseCall ==
    /\ pc = "parse"
    /\ Len(parse_out) < 2
    /\ parse_out' = Append(parse_out,
                           parse_permission_overwrites(parse_in, role_map, source_id, EveryoneH))
    /\ UNCHANGED <<envVars, tgtVars, scraped_data, source_id, mapVars, statVars,
                   pc, entry, work, idx, runs, fails, calls, pre_ok, lines, parse_in,
                   scrapeVars, rateVars>>

NextParse == ParseCall

SpecParse == InitParse /\ [][NextParse]_vars

(* ------------- full clones of a given snapshot, target ready ------------ *)
InitClone ==
    /\ client = TRUE
    /\ target_id = 1
    /\ member = [present |-> TRUE, manage_channels |-> TRUE, manage_roles |-> TRUE]
    /\ tgt_roles = InitialRoles
    /\ tgt_channels = InitialChannels
    /\ tgt_emojis = InitialEmojis
    /\ scraped_data \in CloneSnapshots
    /\ source_id = 1
    /\ role_map = EmptyMap
    /\ cat_map = EmptyMap
    /\ chan_map = EmptyMap
    /\ current_operation = "idle"
    /\ completed = 0
    /\ total = 0
    /\ errors = 0
    /\ pc = "menu"
    /\ entry = "none"
    /\ work = <<>>
    /\ idx = 1
    /\ runs = 0
    /\ fails = 0
    /\ calls = <<>>
    /\ pre_ok = FALSE
    /\ lines = <<>>
    /\ parse_in = <<>>
    /\ parse_out = <<>>
    /\ endpoint = "none"
    /\ get_depth = 0
    /\ get_log = <<>>
    /\ get_slept = <<>>
    /\ get_result = NoneV
    /\ reads = <<>>
    /\ snapshot = NoData
    /\ clock = 0
    /\ last = 0
    /\ wait_log = <<>>

\* the snapshots have no assets and the target starts without any
NextClone ==
    \/ DoFullClone
    \/ GuildEdit
    \/ ChannelsDeleteItem
    \/ RolesDeleteItem
    \/ RolesCreateItem
    \/ ReorderRolesItem
    \/ CategoriesCreateItem
    \/ ChannelsCreateItem
    \/ PhaseDone

SpecClone == InitClone /\ [][NextClone]_vars

(* ------------------------------ APIScraper ------------------------------ *)
\* One answer to session.get: status 0 stands for the request raising (no
\* response at all); retry is the Retry-After header, None when absent, a
\* string otherwise; body tells what resp.json() makes of a 200 answer.
Resp(status, retry, body) == [status |-> status, retry |-> retry, body |-> body]

Responses ==
    {Resp(200, NoneV, b) : b \in {"empty", "full", "undecodable"}}
      \cup {Resp(429, r, "none") : r \in {NoneV, StrV(2), BadStr}}
      \cup {Resp(s, NoneV, "none") : s \in {401, 403, 500}}
      \cup {Resp(0, NoneV, "none")}

\* the four endpoints of scrape_server, in the order it reads them
Endpoints == <<"guild", "channels", "roles", "emojis">>

\* values get returns are tagged with their Python type: <<"dict", record>>
\* or <<"list", sequence>>
DictV(rec) == <<"dict", rec>>
ListV(seq) == <<"list", seq>>

\* resp.json() of a 200 answer: the guild object, or the list of the endpoint
Payload(ep, body) ==
    CASE ep = "guild" -> DictV([id |-> StrV(1), name |-> "src", icon |-> NoneV])
      [] ep = "channels" ->
            ListV(IF body = "empty" THEN <<>> ELSE <<ChanRec("str", 12, 2, NoneV, 1, << >>)>>)
      [] ep = "roles" ->
            ListV(IF body = "empty" THEN <<>> ELSE <<RoleRec("str", 2, "mod", 1)>>)
      [] ep = "emojis" ->
            ListV(IF body = "empty" THEN <<>> ELSE <<EmojiRec(StrV(20))>>)

\* resp.headers.get("Retry-After", 5)
DefaultRetry == 5

\* the interval slept whatever the header says
RetryIntervalDefault(resp) == DefaultRetry

\* float(resp.headers.get("Retry-After", 5)), for a header float() accepts
RetryInterval(resp) == IF resp.retry = NoneV THEN DefaultRetry ELSE resp.retry[2]

\* the test of the retry branch, widened to the access failure
RetriesOnForbidden(resp) == resp.status \in {429, 403}

\* elif resp.status == 429
Retries(resp) == resp.status = 429

\* {"error": ..., "status": ...}
ErrorValue(error, status) == DictV([error |-> error, status |-> status])

\* except Exception as e: return {"error": str(e)}
GetExcept(e) == DictV([error |-> e])

\* what one activation of get returns when it does not call itself; a 429
\* gets here when float() rejected its header
Answer(resp, ep) ==
    IF resp.status = 0 THEN GetExcept("network")
    ELSE IF resp.status = 200
         THEN (IF resp.body = "undecodable" THEN GetExcept("decode")
               ELSE Payload(ep, resp.body))
    ELSE IF resp.status = 429 THEN GetExcept("float")
    ELSE IF resp.status = 403 THEN ErrorValue("forbidden", 403)
    ELSE IF resp.status = 401 THEN ErrorValue("unauthorized", 401)
    ELSE ErrorValue("http " \o ToString(resp.status), resp.status)

\* channels if isinstance(channels, list) else []
ListOr(value) == IF value[1] = "list" THEN value[2] ELSE <<>>

\* the document with a failed guild read replaced by an empty record
BuildSnapshotDefaultGuild(guild_id, guild, channels, roles, emojis) ==
    [id |-> guild_id,
     guild |-> IF "error" \in DOMAIN guild[2] THEN [name |-> "unnamed"] ELSE guild[2],
     channels |-> ListOr(channels),
     roles |-> ListOr(roles),
     emojis |-> ListOr(emojis)]

\* the dict scrape_server returns (its timestamp left out); get never
\* returns None, so the four tests for None change nothing
BuildSnapshot(guild_id, guild, channels, roles, emojis) ==
    [id |-> guild_id,
     guild |-> guild[2],
     channels |-> ListOr(channels),
     roles |-> ListOr(roles),
     emojis |-> ListOr(emojis)]

InitScrape ==
    /\ client = TRUE
    /\ target_id = 0
    /\ member = [present |-> TRUE, manage_channels |-> TRUE, manage_roles |-> TRUE]
    /\ tgt_roles = InitialRoles
    /\ tgt_channels = InitialChannels
    /\ tgt_emojis = InitialEmojis
    /\ scraped_data = NoData
    /\ source_id = 1
    /\ role_map = EmptyMap
    /\ cat_map = EmptyMap
    /\ chan_map = EmptyMap
    /\ current_operation = "idle"
    /\ completed = 0
    /\ total = 0
    /\ errors = 0
    /\ pc = "scrape"
    /\ entry = "none"
    /\ work = <<>>
    /\ idx = 1
    /\ runs = 0
    /\ fails = 0
    /\ calls = <<>>
    /\ pre_ok = FALSE
    /\ lines = <<>>
    /\ parse_in = <<>>
    /\ parse_out = <<>>
    /\ endpoint = "none"
    /\ get_depth = 0
    /\ get_log = <<>>
    /\ get_slept = <<>>
    /\ get_result = NoneV
    /\ reads = <<>>
    /\ snapshot = NoData
    /\ clock = 0
    /\ last = 0
    /\ wait_log = <<>>

pipelineVars ==
    <<envVars, tgtVars, scraped_data, source_id, mapVars, statVars,
      entry, work, idx, runs, fails, calls, pre_ok, lines, parseVars>>

\* scrape_server calls get for its next endpoint
GetCall ==
    /\ pc = "scrape" /\ Len(reads) < Len(Endpoints)
    /\ endpoint' = Endpoints[Len(reads) + 1]
    /\ get_depth' = 1
    /\ get_log' = <<>>
    /\ get_slept' = <<>>
    /\ get_result' = NoneV
    /\ pc' = "get"
    /\ UNCHANGED <<pipelineVars, reads, snapshot, rateVars>>

\* the innermost activation of get issues its request and handles the answer:
\* on 429 it sleeps and calls itself, otherwise it has its return value
GetRequest ==
    /\ pc = "get"
    /\ \E resp \in Responses :
         /\ (Retries(resp) => Len(get_log) < MaxRateLimited)
         /\ get_log' = Append(get_log, [endpoint |-> endpoint, resp |-> resp])
         /\ IF Retries(resp) /\ resp.retry # BadStr
            THEN /\ get_slept' = Append(get_slept, RetryInterval(resp))
                 /\ get_depth' = get_depth + 1
                 /\ UNCHANGED <<pc, get_result>>
            ELSE /\ get_result' = Answer(resp, endpoint)
                 /\ pc' = "get_return"
                 /\ UNCHANGED <<get_slept, get_depth>>
    /\ UNCHANGED <<pipelineVars, endpoint, reads, snapshot, rateVars>>

\* every activation returns what the innermost one returned; scrape_server
\* has the value of this read
GetReturn ==
    /\ pc = "get_return"
    /\ reads' = Append(reads, [endpoint |-> endpoint, value |-> get_result])
    /\ get_depth' = 0
    /\ get_log' = <<>>
    /\ get_slept' = <<>>
    /\ get_result' = NoneV
    /\ pc' = "scrape"
    /\ UNCHANGED <<pipelineVars, endpoint, snapshot, rateVars>>

\* with its four reads done scrape_server builds the document and returns it
ScrapeReturn ==
    /\ pc = "scrape" /\ Len(reads) = Len(Endpoints)
    /\ snapshot' = BuildSnapshot(source_id, reads[1].value, reads[2].value,
                                 reads[3].value, reads[4].value)
    /\ pc' = "scraped"
    /\ UNCHANGED <<pipelineVars, getVars, reads, rateVars>>

NextScrape ==
    \/ GetCall
    \/ GetRequest
    \/ GetReturn
    \/ ScrapeReturn

SpecScrape == InitScrape /\ [][NextScrape]_vars

(* ------------------------------ RateLimiter ----------------------------- *)
\* RateLimiter.delay: 0.6 s
Delay == 3

\* a wait that never sleeps
SleepNeededNever(elapsed) == 0

\* if elapsed < self.delay: await asyncio.sleep(self.delay - elapsed)
SleepNeeded(elapsed) == IF elapsed < Delay THEN Delay - elapsed ELSE 0

\* the limiter just constructed; time.time() counts from the epoch, so the
\* clock is past delay from the start
InitRate ==
    /\ client = TRUE
    /\ target_id = 0
    /\ member = [present |-> TRUE, manage_channels |-> TRUE, manage_roles |-> TRUE]
    /\ tgt_roles = InitialRoles
    /\ tgt_channels = InitialChannels
    /\ tgt_emojis = InitialEmojis
    /\ scraped_data = NoData
    /\ source_id = NoneH
    /\ role_map = EmptyMap
    /\ cat_map = EmptyMap
    /\ chan_map = EmptyMap
    /\ current_operation = "idle"
    /\ completed = 0
    /\ total = 0
    /\ errors = 0
    /\ pc = "rate"
    /\ entry = "none"
    /\ work = <<>>
    /\ idx = 1
    /\ runs = 0
    /\ fails = 0
    /\ calls = <<>>
    /\ pre_ok = FALSE
    /\ lines = <<>>
    /\ parse_in = <<>>
    /\ parse_out = <<>>
    /\ endpoint = "none"
    /\ get_depth = 0
    /\ get_log = <<>>
    /\ get_slept = <<>>
    /\ get_result = NoneV
    /\ reads = <<>>
    /\ snapshot = NoData
    /\ clock \in Delay..(Delay + 1)
    /\ last = 0
    /\ wait_log = <<>>

\* time passes between two calls of wait
Tick ==
    /\ pc = "rate"
    /\ clock < MaxClock
    /\ clock' = clock + 1
    /\ UNCHANGED <<pipelineVars, pc, scrapeVars, last, wait_log>>

\* one call of RateLimiter.wait, from its reading of the clock to its return;
\* a sleep lasts what was asked for or a tick longer
Wait ==
    /\ pc = "rate"
    /\ Len(wait_log) < MaxWaits
    /\ LET now == clock
           elapsed == now - last
           sleep == SleepNeeded(elapsed)
       IN \E late \in {0, 1} :
            /\ (sleep = 0 => late = 0)
            /\ now + sleep + late <= MaxClock
            /\ clock' = now + sleep + late
            /\ last' = clock'
            /\ wait_log' = Append(wait_log, [returned |-> clock', slept |-> sleep])
    /\ UNCHANGED <<pipelineVars, pc, scrapeVars>>

NextRate ==
    \/ Tick
    \/ Wait

SpecRate == InitRate /\ [][NextRate]_vars

(* ============================== claims ================================== *)
CallsOf(ops) == {i \in 1..Len(calls) : calls[i].op \in ops}
Succeeded(ops) == {calls[i].src : i \in {j \in CallsOf(ops) : calls[j].ok}}
Failed(ops) == {i \in CallsOf(ops) : ~calls[i].ok}
\* the items the current phase loop has been through
Processed == {work[k] : k \in 1..(IF idx - 1 < Len(work) THEN idx - 1 ELSE Len(work))}
FullRunEnded == entry = "full" /\ pc = "emojis_create" /\ idx > Len(work)

\* C1: at the end of a full clone each of role_map, cat_map and chan_map holds
\* exactly the source ids whose creation call succeeded (for the default group,
\* whose in-place edit succeeded), and no value is None.
C1_RemapperExactlySuccesses ==
    FullRunEnded =>
      /\ DOMAIN role_map = Succeeded({"role_create", "role_edit"})
      /\ DOMAIN cat_map = Succeeded({"category_create"})
      /\ DOMAIN chan_map = Succeeded({"channel_create"})
      /\ \A k \in DOMAIN role_map : role_map[k] # NoneH
      /\ \A k \in DOMAIN cat_map : cat_map[k] # NoneH
      /\ \A k \in DOMAIN chan_map : chan_map[k] # NoneH

\* C2: in every phase loop a failing item is counted once and the loop goes on
\* to the remaining items: no loop is left by a failure, completed follows the
\* loop index, and after the creation loop of a full clone, with k of the n
\* non-default groups failed, role_map holds n - k non-default entries and
\* errors is k plus the failed edit of the default group, if any.
C2_FailureCountedLoopContinues ==
    /\ pc = "crashed" => current_operation = "Updating Guild"
    /\ (pc \in Phases \ {"guild_edit", "reorder_roles"}) => completed = idx - 1
    /\ (entry = "full" /\ pc = "roles_create" /\ idx > Len(work)) =>
         LET n == Cardinality({r \in Range(work) : ~IsEveryone(r)})
             k == Cardinality(Failed({"role_create"}))
         IN /\ Cardinality({x \in DOMAIN role_map : role_map[x] # EveryoneH}) = n - k
            /\ errors = k + Cardinality(Failed({"role_edit"}))

\* C3: once an entry point has passed its checks, no failure of a remote call
\* leaves a phase method: the control flow never ends in an uncaught exception.
C3_NoFailureEscapes == pc # "crashed"

\* C4: a mutating call is issued only in an invocation that began with the
\* client set, a target id set, the target resolved and both permissions held;
\* an invocation that began otherwise returns having issued none.
C4_NoMutationWithoutCheck ==
    /\ []((calls # <<>> \/ pc \in Phases \cup {"crashed"}) => (pre_ok /\ Usable))
    /\ [][(pc = "menu" /\ ~Usable) => (pc' = "menu" /\ calls' = <<>> /\ tgtVars' = tgtVars)]_vars

C4_Witness ==
    /\ entry = "del_roles" /\ pre_ok
    /\ \E i \in 1..Len(calls) : calls[i].op = "role_delete" /\ calls[i].ok

\* the pipeline phase a call belongs to: groups, containers, leaves, assets
PhaseRank(op) ==
    CASE op \in {"role_edit", "role_create", "role_position"} -> 1
      [] op \in {"category_create", "category_position"} -> 2
      [] op \in {"channel_create", "channel_type_edit"} -> 3
      [] op = "emoji_create" -> 4
      [] OTHER -> 0

\* C5: in a full clone the calls come phase by phase: group calls (edit of the
\* default group, creations, reposition edits), then container calls, then leaf
\* calls, then asset creations; no call of an earlier phase follows a later one.
C5_PhasesInOrder ==
    entry = "full" =>
      \A i, j \in 1..Len(calls) : i < j => PhaseRank(calls[i].op) <= PhaseRank(calls[j].op)

C5_Witness ==
    /\ entry = "full"
    /\ \A r \in 1..4 : \E i \in 1..Len(calls) : PhaseRank(calls[i].op) = r /\ calls[i].ok

\* C6: every leaf channels_create has been through got its creation call, with
\* the container cat_map holds under the leaf's parent_id as category, and with
\* no category when parent_id is None or has no entry.
C6_LeafUnderMappedParent ==
    pc = "channels_create" =>
      \A ch \in Processed :
        \E i \in CallsOf({"channel_create"}) :
          /\ calls[i].src = ch.id
          /\ calls[i].cat = (IF ch.parent_id \in DOMAIN cat_map
                             THEN cat_map[ch.parent_id] ELSE NoneH)

C6_Witness ==
    /\ pc = "channels_create"
    /\ \E i \in CallsOf({"channel_create"}) : calls[i].ok /\ calls[i].cat # NoneH
    /\ \E i \in CallsOf({"channel_create"}) : calls[i].ok /\ calls[i].cat = NoneH

\* C7: in a full clone, every group-kind overwrite of a created container or
\* leaf whose source group roles_create registered in role_map is part of the
\* overwrites the creation call is given, for that target group and with the
\* overwrite's allow and deny, whatever the representation of the ids.
C7_RegisteredGroupTranslated ==
    (entry = "full" /\ pc \in {"categories_create", "channels_create"}) =>
      \A c \in Processed :
        \A i \in CallsOf({"category_create", "channel_create"}) :
          calls[i].src = c.id =>
            \A n \in 1..Len(c.permission_overwrites) :
              LET ow == c.permission_overwrites[n]
              IN ow.type = IntV(0) =>
                   \A key \in {x \in DOMAIN role_map : safe_int(x, 0) = safe_int(ow.id, 0)} :
                     /\ role_map[key] \in DOMAIN calls[i].ow
                     /\ calls[i].ow[role_map[key]]
                          = <<safe_int(ow.allow, 0), safe_int(ow.deny, 0)>>

\* the target group an overwrite id stands for: role_map first, then the default group
ResolvedHandle(ow) ==
    IF IntV(safe_int(ow.id, 0)) \in DOMAIN role_map
    THEN role_map[IntV(safe_int(ow.id, 0))]
    ELSE IF safe_int(ow.id, 0) = source_id THEN EveryoneH ELSE NoneH

\* C8: every key of the output of parse_permission_overwrites is a target
\* group handle, not None, that a group-kind overwrite of the input resolved
\* to (through role_map or as the default group); member-kind overwrites
\* contribute nothing.
C8_OnlyResolvedGroupEntries ==
    \A n \in 1..Len(parse_out) :
      \A h \in DOMAIN parse_out[n] :
        /\ h # NoneH
        /\ \E i \in 1..Len(parse_in) :
             /\ parse_in[i].type = IntV(0)
             /\ ResolvedHandle(parse_in[i]) = h

C8_Witness ==
    /\ Len(parse_out) >= 1
    /\ parse_out[1] # EmptyMap
    /\ \E i \in 1..Len(parse_in) :
         parse_in[i].type = IntV(1) /\ ResolvedHandle(parse_in[i]) # NoneH

C10_DefaultGroupKept ==
    \A i \in 1..Len(calls) :
      /\ calls[i].op = "role_delete" => calls[i].tgt # EveryoneH
      /\ calls[i].op = "role_create" =>
           \A n \in 1..Len(scraped_data.roles) :
             scraped_data.roles[n].name = "@everyone" => scraped_data.roles[n].id # calls[i].src
      /\ calls[i].op = "role_edit" =>
           /\ calls[i].tgt = EveryoneH
           /\ calls[i].ok => MapGet(role_map, calls[i].src) = EveryoneH

C10_Witness ==
    /\ \E i \in 1..Len(calls) : calls[i].op = "role_delete" /\ calls[i].ok
    /\ \E i \in 1..Len(calls) : calls[i].op = "role_edit" /\ calls[i].ok
    /\ \E i \in 1..Len(calls) : calls[i].op = "role_create" /\ calls[i].ok
    /\ [h |-> EveryoneH, name |-> "@everyone"] \in tgt_roles

\* the answers of the current call of get but the last, and the last
Earlier == {i \in 1..Len(get_log) : i < Len(get_log)}
LastResp == get_log[Len(get_log)].resp
\* every 429 of the current call came with a Retry-After that is a number, or none
IntervalsGiven == \A i \in 1..Len(get_log) : get_log[i].resp.retry # BadStr

C12_RetryWithoutNesting == get_depth <= 1

\* C13: 401 and 403 end the call: get returns unauthorized / forbidden with
\* the status, and any other status that is neither 200 nor 429 returns an
\* error carrying that status; no request follows such an answer, so without
\* a 429 the call made exactly one request.
C13_TerminalStatuses ==
    /\ \A i \in Earlier : get_log[i].resp.status = 429
    /\ pc = "get_return" =>
         /\ LastResp.status = 401 =>
              get_result = DictV([error |-> "unauthorized", status |-> 401])
         /\ LastResp.status = 403 =>
              get_result = DictV([error |-> "forbidden", status |-> 403])
         /\ LastResp.status \notin {0, 200, 429, 401, 403} =>
              /\ get_result[1] = "dict"
              /\ DOMAIN get_result[2] = {"error", "status"}
              /\ get_result[2].status = LastResp.status

C13_Witness ==
    /\ pc = "get_return"
    /\ Len(get_log) = 1
    /\ LastResp.status = 403
    /\ \E i \in 1..Len(reads) : reads[i].value = ErrorValue("http 500", 500)
    /\ \E i \in 1..Len(reads) : reads[i].value = ErrorValue("unauthorized", 401)

\* C14: whatever the request does, get returns a value, and for a request
\* that raised it returns an error of the shape of the generic HTTP error:
\* a dict with the fields error and status.
C14_ExceptionAsGenericError ==
    pc = "get_return" =>
      /\ get_result[1] \in {"dict", "list"}
      /\ LastResp.status = 0 =>
           /\ get_result[1] = "dict"
           /\ DOMAIN get_result[2] = DOMAIN ErrorValue("http 500", 500)[2]

\* C15: when scrape_server returns it has called get for all four endpoints,
\* in order, whatever the earlier calls returned; channels, roles and emojis of
\* the document are the list the read returned, empty when the read returned
\* no list, and guild is what the guild read returned, an error record included.
C15_FourReadsAlwaysSnapshot ==
    /\ pc \in {"scrape", "get", "get_return", "scraped"}
    /\ pc = "scraped" =>
         /\ Len(reads) = 4
         /\ \A i \in 1..4 : reads[i].endpoint = Endpoints[i]
         /\ DOMAIN snapshot = {"id", "guild", "channels", "roles", "emojis"}
         /\ snapshot.guild = reads[1].value[2]
         /\ \A i \in 2..4 :
              IF reads[i].value[1] = "list"
              THEN snapshot[Endpoints[i]] = reads[i].value[2]
              ELSE snapshot[Endpoints[i]] = <<>>

C15_Witness ==
    /\ pc = "scraped"
    /\ reads[1].value = ErrorValue("forbidden", 403)
    /\ snapshot.guild = [error |-> "forbidden", status |-> 403]
    /\ reads[2].value = GetExcept("network")
    /\ snapshot.channels = <<>>
    /\ snapshot.roles = <<RoleRec("str", 2, "mod", 1)>>
    /\ reads[4].value = ListV(<<>>)

\* C16: the document scrape_server returns keeps the reason of a failed read
\* of channels, roles or emojis: the field is not just the empty list a source
\* without such items gives, or the document has a field beyond its five.
C16_FailureReasonRetained ==
    pc = "scraped" =>
      \A i \in 2..4 :
        reads[i].value[1] # "list" =>
          \/ snapshot[Endpoints[i]] # <<>>
          \/ DOMAIN snapshot # {"id", "guild", "channels", "roles", "emojis"}

\* C18: of two consecutive calls of wait the later returns at least delay
\* after the earlier returned, and the first call does not sleep.
C18_WaitsSpacedByDelay ==
    /\ \A i \in 2..Len(wait_log) :
         wait_log[i].returned - wait_log[i - 1].returned >= Delay
    /\ Len(wait_log) >= 1 => wait_log[1].slept = 0

C18_Witness ==
    /\ Len(wait_log) = 3
    /\ wait_log[2].slept > 0
    /\ wait_log[2].returned - wait_log[1].returned = Delay
    /\ wait_log[3].slept = 0

\* C17: every mutating call of an invocation was preceded by its own completed
\* rate.wait(): the call site awaited wait() after the previous mutating call.
C17_WaitBeforeEveryCall ==
    \A i \in 1..Len(calls) : calls[i].waited

\* the position of target object h after the calls so far: that of the last
\* accepted call on h that carries one
PositionOf(h) ==
    LET on == {i \in 1..Len(calls) : calls[i].tgt = h /\ calls[i].ok /\ calls[i].pos # NoneH}
    IN calls[CHOOSE i \in on : \A j \in on : j <= i].pos

\* the source position of the record with this id in the list the phase walks
SourcePosition(id) ==
    LET rec == CHOOSE r \in Range(work) : r.id = id
    IN safe_int(rec.position, 0)

\* C19: when roles_create has finished, reposition pass included, of any two
\* created non-default groups the one lower in the source is lower on the
\* target; the same for any two created containers when categories_create has
\* finished; whichever calls failed.
C19_CreatedOrderMatchesSource ==
    /\ (pc = "reorder_roles" /\ idx > Len(work)) =>
         \A i, j \in {n \in CallsOf({"role_create"}) : calls[n].ok} :
           SourcePosition(calls[i].src) < SourcePosition(calls[j].src)
             => PositionOf(calls[i].tgt) < PositionOf(calls[j].tgt)
    /\ (pc = "categories_create" /\ idx > Len(work)) =>
         \A i, j \in {n \in CallsOf({"category_create"}) : calls[n].ok} :
           SourcePosition(calls[i].src) < SourcePosition(calls[j].src)
             => PositionOf(calls[i].tgt) < PositionOf(calls[j].tgt)

\* C20: when do_full_clone, do_clone_roles or do_clone_structure starts its
\* first phase, before any call of the run, role_map, cat_map and chan_map
\* are empty.
C20_RemapperFreshPerRun ==
    (entry \in {"full", "roles", "structure"} /\ pc \in Phases /\ calls = <<>>) =>
      /\ role_map = EmptyMap
      /\ cat_map = EmptyMap
      /\ chan_map = EmptyMap

\* the source position of the group record with this id in the snapshot
SnapshotPosition(id) ==
    LET rec == CHOOSE r \in Range(scraped_data.roles) : r.id = id
    IN safe_int(rec.position, 0)

AllCallsSucceeded == \A i \in 1..Len(calls) : calls[i].ok

\* C21: a full clone of the Scenario A snapshot in which every call succeeds
\* ends with 3 created groups ordered on the target as in the source, 1 created
\* container, 2 created leaves whose category is that container, 6 entries in
\* role_map, cat_map and chan_map together, and no error counted in any phase.
C21_ScenarioA ==
    (scraped_data = ScenarioA /\ entry = "full" /\ AllCallsSucceeded) =>
      /\ errors = 0
      /\ \A n \in 1..Len(lines) : lines[n].via # "log_error"
      /\ FullRunEnded =>
           /\ Cardinality(CallsOf({"role_create"})) = 3
           /\ \A i, j \in CallsOf({"role_create"}) :
                SnapshotPosition(calls[i].src) < SnapshotPosition(calls[j].src)
                  => PositionOf(calls[i].tgt) < PositionOf(calls[j].tgt)
           /\ Cardinality(CallsOf({"category_create"})) = 1
           /\ Cardinality(CallsOf({"channel_create"})) = 2
           /\ \A i \in CallsOf({"channel_create"}) :
                \E c \in CallsOf({"category_create"}) :
                  /\ calls[i].cat = calls[c].tgt
                  /\ [h |-> calls[i].tgt, category |-> calls[c].tgt] \in tgt_channels
           /\ Cardinality(DOMAIN role_map) + Cardinality(DOMAIN cat_map)
                + Cardinality(DOMAIN chan_map) = 6

C21_Witness ==
    /\ scraped_data = ScenarioA
    /\ FullRunEnded
    /\ AllCallsSucceeded
    /\ Cardinality(DOMAIN role_map) = 3
    /\ Cardinality({c \in tgt_channels : c.category # NoneH}) = 2

\* C22: every line written to the console, by a log method or by print_status,
\* is written while print_lock is held.
C22_WritesUnderLock ==
    \A n \in 1..Len(lines) : lines[n].locked

\* C23: when a phase method is about to process its first item, completed
\* and errors are 0, whatever the earlier phases of the run counted.
C23_CountersResetPerPhase ==
    (pc \in Phases \ {"reorder_roles"} /\ idx = 1) => (completed = 0 /\ errors = 0)

C23_Witness ==
    /\ pc = "roles_create" /\ idx = 1 /\ Len(work) > 0
    /\ completed = 0 /\ errors = 0
    /\ \E i \in Failed({"role_delete"}) : calls[i].tgt \in {r.h : r \in tgt_roles}

\* the phases that loop over items, and the phase whose name current_operation holds
LoopPhases == Phases \ {"guild_edit", "reorder_roles"}
CurrentPhase == CHOOSE p \in Phases : OperationName(p) = current_operation
\* the log_add, log_delete and log_error lines of phase p, and its log_error lines
LogLines(p) ==
    {n \in 1..Len(lines) :
       lines[n].phase = p /\ lines[n].via \in {"log_add", "log_delete", "log_error"}}
ErrorLines(p) == {n \in LogLines(p) : lines[n].via = "log_error"}

\* C24: in a phase loop every item gone through has written exactly one log
\* line and counted once in completed, and the error lines are as many as
\* errors; this holds for an item whose call raised any exception.
C24_OneLinePerItem ==
    /\ pc \in LoopPhases =>
         /\ Cardinality(LogLines(pc)) = idx - 1
         /\ completed = idx - 1
         /\ Cardinality(ErrorLines(pc)) = errors
    /\ (pc = "crashed" /\ CurrentPhase \in LoopPhases) =>
         /\ Cardinality(LogLines(CurrentPhase)) = idx
         /\ completed = idx

\* C25 as stated: in every phase 0 <= completed <= total; when a phase ends
\* errors <= total and completed = total; the percentage of a status line lies
\* in 0..100 and is 100.
C25_CountersWithinTotal ==
    /\ pc \in Phases =>
         /\ 0 <= completed /\ completed <= total
         /\ idx > Len(work) => (errors <= total /\ completed = total)
    /\ \A n \in 1..Len(lines) :
         (lines[n].via = "print_status" /\ lines[n].percent # NoneH) => lines[n].percent = 100

\* C25, corrected: the same for the phases that loop over items and for the
\* reposition pass; the settings phase keeps total = 0 and completed = 0 and
\* counts at most one error.
C25_CountersWithinTotalInLoops ==
    /\ pc \in Phases =>
         /\ 0 <= completed /\ completed <= total
         /\ idx > Len(work) => completed = total
         /\ (idx > Len(work) /\ pc # "guild_edit") => errors <= total
         /\ pc = "guild_edit" => (total = 0 /\ errors <= 1)
    /\ \A n \in 1..Len(lines) :
         (lines[n].via = "print_status" /\ lines[n].percent # NoneH) => lines[n].percent = 100

C25_Witness ==
    /\ pc = "reorder_roles" /\ 1 < total /\ completed = total /\ 0 < errors /\ errors < total
    /\ \E n \in 1..Len(lines) : lines[n].via = "print_status" /\ lines[n].percent = 100

\* the step of a full clone a call belongs to: the three wipes, then creation
WipeRank(op) ==
    CASE op = "emoji_delete" -> 1
      [] op = "channel_delete" -> 2
      [] op = "role_delete" -> 3
      [] op \in {"role_edit", "role_create", "category_create", "channel_create",
                 "emoji_create"} -> 4
      [] OTHER -> 0

\* C26: in a full clone the delete calls come as assets, then channels, then
\* non-default groups, all before the first create call; each wipe goes through
\* every item it found, and no failure of a delete makes it stop.
C26_WipeOrder ==
    /\ entry = "full" =>
         \A i, j \in {n \in 1..Len(calls) : WipeRank(calls[n].op) > 0} :
           i < j => WipeRank(calls[i].op) <= WipeRank(calls[j].op)
    /\ (entry = "full" /\ pc \in {"emojis_delete", "channels_delete", "roles_delete"}
                        /\ idx > Len(work)) =>
         \A k \in 1..Len(work) : \E i \in 1..Len(calls) : calls[i].tgt = work[k].h
    /\ (entry = "full" /\ pc = "crashed") =>
         CurrentPhase \notin {"emojis_delete", "channels_delete", "roles_delete"}

\* C27: when the reposition pass has finished, its edits all follow the
\* creation calls of the phase; every group of the list with an entry in
\* role_map other than the default group got exactly one edit, on that entry
\* and with the source position, whether or not earlier edits failed; and every
\* edit is for a group the phase created.
C27_RepositionPass ==
    (pc = "reorder_roles" /\ idx > Len(work)) =>
      /\ \A i \in CallsOf({"role_position"}) :
           \A j \in CallsOf({"role_create", "role_edit"}) : j < i
      /\ \A k \in 1..Len(work) :
           (MapGet(role_map, work[k].id) \notin {NoneH, EveryoneH}) =>
             Cardinality({i \in CallsOf({"role_position"}) :
                            /\ calls[i].src = work[k].id
                            /\ calls[i].tgt = role_map[work[k].id]
                            /\ calls[i].pos = safe_int(work[k].position, 0)}) = 1
      /\ Cardinality(CallsOf({"role_position"}))
           = Cardinality({k \in 1..Len(work) :
                            MapGet(role_map, work[k].id) \notin {NoneH, EveryoneH}})
      /\ \A i \in CallsOf({"role_position"}) :
           \E j \in CallsOf({"role_create"}) : calls[j].ok /\ calls[j].src = calls[i].src

\* C28: every failed position edit of the reposition pass has its log line.
C28_RepositionFailureLogged ==
    Cardinality({n \in 1..Len(lines) : lines[n].phase = "reorder_roles"})
      >= Cardinality(Failed({"role_position"}))

\* guild_edit has returned, its name edit was accepted, the snapshot names an
\* icon and no icon edit was issued: the fetch of the icon failed
IconFetchFailed ==
    /\ entry = "full"
    /\ pc = "crashed" \/ (pc = "guild_edit" /\ idx > 1)
    /\ Len(calls) = 1
    /\ calls[1].op = "guild_edit" /\ calls[1].ok
    /\ Truthy(scraped_data.guild.icon)
    /\ CallsOf({"guild_icon"}) = {}

\* C29: after a failed icon fetch the name edit stays, no icon edit is issued,
\* a line of the settings phase reports the failure and the run goes on.
C29_IconFailureLogged ==
    IconFetchFailed =>
      /\ \E n \in 1..Len(lines) :
           lines[n].phase = "guild_edit" /\ lines[n].via \in {"console.print", "log_error"}
      /\ pc # "crashed"

\* the creation call the claim names for a leaf of this kind
ExpectedCall(kind) ==
    CASE kind = 0 ->
           [fn |-> "create_text_channel", args |-> {"topic", "slowmode_delay", "nsfw"}]
      [] kind = 2 -> [fn |-> "create_voice_channel", args |-> {"bitrate", "user_limit"}]
      [] kind = 5 -> [fn |-> "create_text_channel", args |-> {"topic"}]
      [] kind = 13 -> [fn |-> "create_stage_channel", args |-> {}]
      [] kind = 15 -> [fn |-> "create_forum", args |-> {"topic"}]
      [] OTHER -> [fn |-> "create_text_channel", args |-> {}]

\* C30: when channels_create has finished in a full clone, every channel
\* record of the snapshot whose kind is 4, as an integer or as a string, got one
\* container creation call and no leaf call, and every other record one leaf
\* call, the one of its kind, and no container call.
C30_OneCallPerKind ==
    (entry = "full" /\ pc = "channels_create" /\ idx > Len(work)) =>
      \A n \in 1..Len(scraped_data.channels) :
        LET ch == scraped_data.channels[n]
            as_cat == {i \in CallsOf({"category_create"}) : calls[i].src = ch.id}
            as_leaf == {i \in CallsOf({"channel_create"}) : calls[i].src = ch.id}
        IN IF safe_int(ch.type, 0) = 4
           THEN Cardinality(as_cat) = 1 /\ as_leaf = {}
           ELSE /\ as_cat = {}
                /\ Cardinality(as_leaf) = 1
                /\ \A i \in as_leaf : calls[i].how = ExpectedCall(safe_int(ch.type, 0))

\* a pass of the loop of emojis_create, and its download failing: a failure
\* was spent in the pass and no call the pass issued was refused
EmojiPass == pc = "emojis_create" /\ idx <= Len(work) /\ idx' = idx + 1
DownloadFailed ==
    /\ fails' = fails + 1
    /\ \A i \in (Len(calls) + 1)..Len(calls') : calls'[i].ok

\* C31: a pass of emojis_create over an asset with no id, or whose download
\* failed, issues no call, writes exactly one line, an error, adds one to errors
\* and one to completed, and leaves the loop at the next asset.
C31_SkippedAssetLogged ==
    [][(EmojiPass /\ (~Truthy(work[idx].id) \/ DownloadFailed)) =>
         /\ calls' = calls
         /\ tgt_emojis' = tgt_emojis
         /\ lines' = Append(lines, log_error)
         /\ errors' = errors + 1
         /\ completed' = completed + 1
         /\ pc' = pc /\ work' = work]_vars

C31_Witness ==
    /\ pc = "emojis_create" /\ idx = 2
    /\ Truthy(work[1].id)
    /\ CallsOf({"emoji_create"}) = {}
    /\ errors = 1 /\ completed = 1
    /\ Len(lines) = 1 /\ lines[1].via = "log_error"

\* role_map holds an entry for the source group n, under either representation
Registered(n) == \E key \in DOMAIN role_map : safe_int(key, 0) = n
\* the channel records of the snapshot a creation call was made for
RecordsOf(i) ==
    {n \in 1..Len(scraped_data.channels) : scraped_data.channels[n].id = calls[i].src}

\* C32: in the overwrites a container or leaf creation call is given, a
\* group-kind overwrite of the record whose id is not in role_map and is the
\* source's default-group id has its entry under the target's default group,
\* also when the edit of that group failed; and every entry comes from a
\* group-kind overwrite that is registered or names the default group, so an
\* overwrite that is neither yields none.
C32_DefaultGroupFallback ==
    \A i \in CallsOf({"category_create", "channel_create"}) :
      \A n \in RecordsOf(i) :
        LET ows == scraped_data.channels[n].permission_overwrites
            group == {k \in 1..Len(ows) : ows[k].type = IntV(0)}
        IN /\ \A k \in group :
                (~Registered(safe_int(ows[k].id, 0)) /\ safe_int(ows[k].id, 0) = source_id) =>
                  /\ EveryoneH \in DOMAIN calls[i].ow
                  /\ \E j \in group :
                       /\ safe_int(ows[j].id, 0) = source_id
                       /\ calls[i].ow[EveryoneH]
                            = <<safe_int(ows[j].allow, 0), safe_int(ows[j].deny, 0)>>
           /\ \A h \in DOMAIN calls[i].ow :
                \E k \in group :
                  \/ safe_int(ows[k].id, 0) = source_id /\ h = EveryoneH
                  \/ \E key \in DOMAIN role_map :
                       safe_int(key, 0) = safe_int(ows[k].id, 0) /\ role_map[key] = h

C32_Witness ==
    /\ \E i \in Failed({"role_edit"}) : TRUE
    /\ ~Registered(source_id)
    /\ \E i \in CallsOf({"channel_create"}) :
         /\ calls[i].ok
         /\ EveryoneH \in DOMAIN calls[i].ow
         /\ \E n \in RecordsOf(i) :
              \E k \in 1..Len(scraped_data.channels[n].permission_overwrites) :
                safe_int(scraped_data.channels[n].permission_overwrites[k].id, 0) = source_id

\* C33: the snapshot held is one scrape_source captured, and no step of an
\* entry point or of a phase method changes it or a record of it: the only
\* step that does is a scrape.
C33_SnapshotReadOnly ==
    /\ [](scraped_data \in Snapshots \cup {NoData})
    /\ [][scraped_data' # scraped_data => (pc = "menu" /\ pc' = "menu" /\ ScrapeSource)]_vars

C33_Witness ==
    /\ pc = "reorder_roles" /\ idx > Len(work)
    /\ Len(work) = 3
    /\ work # scraped_data.roles
    /\ scraped_data = SnapshotFull("str")

\* C34: a leaf created in a run whose parent container was created on the
\* target by a call of the same run is created under that container, whatever
\* other calls of the run failed.
C34_LeafUnderCreatedParent ==
    \A i \in CallsOf({"channel_create"}) \ Failed({"channel_create"}) :
      \A n \in RecordsOf(i) :
        \A c \in CallsOf({"category_create"}) \ Failed({"category_create"}) :
          (/\ Truthy(scraped_data.channels[n].parent_id)
           /\ safe_int(calls[c].src, 0) = safe_int(scraped_data.channels[n].parent_id, 0))
            => calls[i].cat = calls[c].tgt

\* the guild record of the snapshot held carries an error or has no name
MetadataFailed ==
    /\ "guild" \in DOMAIN scraped_data
    /\ "error" \in DOMAIN scraped_data.guild \/ "name" \notin DOMAIN scraped_data.guild

\* C35: while the snapshot held is one whose metadata capture failed, a clone
\* entry point (full, roles, structure, assets) has issued no call on the target.
C35_NoCloneFromFailedSnapshot ==
    (MetadataFailed /\ entry \in {"full", "roles", "structure", "emojis"}) => calls = <<>>

====
